---- MODULE Spec2Model ----
(***************************************************************************)
(* Model of Creational/Abstract_factory.py: the furniture factories, the   *)
(* chair and sofa products, client_code and the module's entry point.      *)
(*                                                                         *)
(* Objects carry no attributes, so an object is its class plus an (empty)  *)
(* attribute dictionary.  Python strings are TLA+ strings; an f-string is  *)
(* the concatenation of its literal parts and the interpolated values.     *)
(* A call either returns a value or raises: Ok(v) / Raise(e).              *)
(***************************************************************************)
EXTENDS Integers, Sequences, FiniteSets, TLC

VARIABLES
    runAs,      \* the module's __name__: "__main__" when run directly
    pc,         \* position in the module body (lines 146-156)
    frame,      \* the activation of client_code, if any
    heap,       \* every object constructed so far, in allocation order
    stdout,     \* the arguments of the print calls made so far, in order
    log         \* history of calls: what was called on what, and the result

vars == <<runAs, pc, frame, heap, stdout, log>>

\* Bounds on the calls an importing caller makes.
MaxObjects == 4
MaxCalls == 5
MaxOffPattern == 1

-----------------------------------------------------------------------------
(* Classes *)

FactoryClasses == {"ClassicalFurniture", "ModernFuniture"}
ChairClasses == {"ClassicalChair", "ModernChair"}
SofaClasses == {"ClassicalSofa", "ModernSofa"}
AbstractClasses == {"FurnitureFactory", "Chair", "Sofa"}

\* every class the module defines; an importing caller can name any of them
Classes == FactoryClasses \cup ChairClasses \cup SofaClasses \cup AbstractClasses

Ok(v) == [raised |-> FALSE, value |-> v]
Raise(e) == [raised |-> TRUE, value |-> e]

\* Instantiating a class: an ABC with abstract methods cannot be instantiated.
New(cls) == IF cls \in AbstractClasses THEN Raise("TypeError") ELSE Ok(cls)

\* An instance: no __init__ anywhere, so no instance attributes.
Obj(cls) == [cls |-> cls, attrs |-> {}]

-----------------------------------------------------------------------------
(* Factories: each method names the class it instantiates *)

ClassicalFurniture_create_chair == New("ClassicalChair")

ClassicalFurniture_create_sofa == New("ClassicalSofa")

\* variant of ModernFuniture.create_chair that instantiates the other family
ModernFuniture_create_chair_Mixed == New("ClassicalChair")

ModernFuniture_create_chair == New("ModernChair")

ModernFuniture_create_sofa == New("ModernSofa")

\* factory.create_chair() by the class of the receiver
create_chair(cls) ==
    CASE cls = "ClassicalFurniture" -> ClassicalFurniture_create_chair
      [] cls = "ModernFuniture" -> ModernFuniture_create_chair
      [] OTHER -> Raise("AttributeError")

\* factory.create_sofa() by the class of the receiver
create_sofa(cls) ==
    CASE cls = "ClassicalFurniture" -> ClassicalFurniture_create_sofa
      [] cls = "ModernFuniture" -> ModernFuniture_create_sofa
      [] OTHER -> Raise("AttributeError")

-----------------------------------------------------------------------------
(* Chairs *)

\* variant of ClassicalChair.can_sit that remembers it was asked before
ClassicalChair_can_sit_Remembering ==
    IF \E i \in DOMAIN log : log[i].op = "can_sit"
    THEN "You can sit on it again from Classical Chair"
    ELSE "You can sit on it from Classical Chair"

ClassicalChair_can_sit == "You can sit on it from Classical Chair"

\* variant of ModernChair.can_sit left with the sentence it was copied from
ModernChair_can_sit_Copied == "You can sit on it from Classical Chair"

ModernChair_can_sit == "You can sit on it from Modern Chair"

\* collaborator.can_sit(), called with no argument, by the class of the
\* receiver: a chair answers, a sofa's can_sit misses its collaborator
\* argument, a factory has no such method.
can_sit0(cls) ==
    CASE cls = "ClassicalChair" -> Ok(ClassicalChair_can_sit)
      [] cls = "ModernChair" -> Ok(ModernChair_can_sit)
      [] cls \in SofaClasses -> Raise("TypeError")
      [] OTHER -> Raise("AttributeError")

-----------------------------------------------------------------------------
(* Sofas; collaborator is the class of the object passed *)

ClassicalSofa_can_sit(collaborator) ==
    LET result == can_sit0(collaborator)
    IN  IF result.raised THEN result
        ELSE Ok("You can sit on it from Classical sofa, with collabortaor ("
                \o result.value \o ")")

\* variant of ClassicalSofa.can_sleep with the sentence capitalised
ClassicalSofa_can_sleep_Capital == "You can sleep from Classical sofa"

ClassicalSofa_can_sleep == "you can sleep from Classical sofa"

\* variant of ModernSofa.can_sit whose string is not an f-string
ModernSofa_can_sit_Plain(collaborator) ==
    LET result == can_sit0(collaborator)
    IN  IF result.raised THEN result
        ELSE Ok("You can sit on it from Modern sofa, with collaborator ({result})")

\* variant of ModernSofa.can_sit that rejects a chair of another variant
ModernSofa_can_sit_Strict(collaborator) ==
    LET result == can_sit0(collaborator)
    IN  IF result.raised THEN result
        ELSE IF collaborator /= "ModernChair" THEN Raise("TypeError")
        ELSE Ok("You can sit on it from Modern sofa, with collaborator ("
                \o result.value \o ")")

ModernSofa_can_sit(collaborator) ==
    LET result == can_sit0(collaborator)
    IN  IF result.raised THEN result
        ELSE Ok("You can sit on it from Modern sofa, with collaborator ("
                \o result.value \o ")")

\* variant of ModernSofa.can_sleep left with the sentence it was copied from
ModernSofa_can_sleep_Copied == "you can sleep from Classical sofa"

ModernSofa_can_sleep == "You can sleep from Modern sofa"

\* sofa.can_sit(chair), called with one argument, by the class of the receiver
can_sit1(cls, collaborator) ==
    CASE cls = "ClassicalSofa" -> ClassicalSofa_can_sit(collaborator)
      [] cls = "ModernSofa" -> ModernSofa_can_sit(collaborator)
      [] cls \in ChairClasses -> Raise("TypeError")
      [] OTHER -> Raise("AttributeError")

\* sofa.can_sleep() by the class of the receiver
can_sleep(cls) ==
    CASE cls = "ClassicalSofa" -> Ok(ClassicalSofa_can_sleep)
      [] cls = "ModernSofa" -> Ok(ModernSofa_can_sleep)
      [] OTHER -> Raise("AttributeError")

-----------------------------------------------------------------------------
(* State *)

\* One entry of the call history.  by is who made the call ("module": the
\* module body, "client_code", "caller": code that imported the module);
\* self and arg are heap indices (0: none); obj is the heap index of a
\* returned object (0: the call returned the string ret, or raised the
\* exception named by ret).
Ev(by, op, self, arg, ret, obj, raised) ==
    [by |-> by, op |-> op, self |-> self, arg |-> arg, ret |-> ret,
     obj |-> obj, raised |-> raised]

NoFrame == [pc |-> "idle", factory |-> 0, chair |-> 0, sofa |-> 0, base |-> 0]

Init ==
    /\ runAs \in {"__main__", "imported"}
    /\ pc = "main_guard"
    /\ frame = NoFrame
    /\ heap = <<>>
    /\ stdout = <<>>
    /\ log = <<>>

-----------------------------------------------------------------------------
(* client_code(factory), one step per statement; factory is a heap index *)

\* the call itself: binds the parameter; base is the output position on entry
Enter(by, factory, heapNow, logNow) ==
    /\ frame' = [pc |-> "create_chair", factory |-> factory, chair |-> 0,
                 sofa |-> 0, base |-> Len(stdout)]
    /\ log' = Append(logNow, Ev(by, "client_code", 0, factory, "", 0, FALSE))
    /\ heap' = heapNow

\* line 139: chair = factory.create_chair()
CC_CreateChair ==
    /\ frame.pc = "create_chair"
    /\ LET r == create_chair(heap[frame.factory].cls)
           n == Len(heap) + 1
       IN  IF r.raised
           THEN /\ frame' = [frame EXCEPT !.pc = "raising"]
                /\ log' = Append(log, Ev("client_code", "create_chair",
                                         frame.factory, 0, r.value, 0, TRUE))
                /\ heap' = heap
           ELSE /\ frame' = [frame EXCEPT !.pc = "create_sofa", !.chair = n]
                /\ log' = Append(log, Ev("client_code", "create_chair",
                                         frame.factory, 0, r.value, n, FALSE))
                /\ heap' = Append(heap, Obj(r.value))
    /\ UNCHANGED <<runAs, pc, stdout>>

\* line 140: sofa = factory.create_sofa()
CC_CreateSofa ==
    /\ frame.pc = "create_sofa"
    /\ LET r == create_sofa(heap[frame.factory].cls)
           n == Len(heap) + 1
       IN  IF r.raised
           THEN /\ frame' = [frame EXCEPT !.pc = "raising"]
                /\ log' = Append(log, Ev("client_code", "create_sofa",
                                         frame.factory, 0, r.value, 0, TRUE))
                /\ heap' = heap
           ELSE /\ frame' = [frame EXCEPT !.pc = "print_sleep", !.sofa = n]
                /\ log' = Append(log, Ev("client_code", "create_sofa",
                                         frame.factory, 0, r.value, n, FALSE))
                /\ heap' = Append(heap, Obj(r.value))
    /\ UNCHANGED <<runAs, pc, stdout>>

\* line 142: print(f"{sofa.can_sleep()}"); formatting a str yields the str
CC_PrintSleep ==
    /\ frame.pc = "print_sleep"
    /\ LET r == can_sleep(heap[frame.sofa].cls)
           e == Ev("client_code", "can_sleep", frame.sofa, 0, r.value, 0,
                   r.raised)
       IN  IF r.raised
           THEN /\ frame' = [frame EXCEPT !.pc = "raising"]
                /\ log' = Append(log, e)
                /\ stdout' = stdout
           ELSE /\ frame' = [frame EXCEPT !.pc = "print_sit"]
                /\ log' = log \o <<e, Ev("client_code", "print", 0, 0,
                                         r.value, 0, FALSE)>>
                /\ stdout' = Append(stdout, r.value)
    /\ UNCHANGED <<runAs, pc, heap>>

\* line 143: print(f"{sofa.can_sit(chair)}")
CC_PrintSit ==
    /\ frame.pc = "print_sit"
    /\ LET r == can_sit1(heap[frame.sofa].cls, heap[frame.chair].cls)
           e == Ev("client_code", "can_sit", frame.sofa, frame.chair,
                   r.value, 0, r.raised)
       IN  IF r.raised
           THEN /\ frame' = [frame EXCEPT !.pc = "raising"]
                /\ log' = Append(log, e)
                /\ stdout' = stdout
           ELSE /\ frame' = [frame EXCEPT !.pc = "returning"]
                /\ log' = log \o <<e, Ev("client_code", "print", 0, 0,
                                         r.value, 0, FALSE)>>
                /\ stdout' = Append(stdout, r.value)
    /\ UNCHANGED <<runAs, pc, heap>>

\* client_code ends: it falls off its last statement, or an exception leaves
\* it.  The module body has no handler, so there an exception ends the run.
CC_Exit ==
    /\ frame.pc \in {"returning", "raising"}
    /\ frame' = NoFrame
    /\ log' = Append(log, Ev("client_code",
                             IF frame.pc = "raising" THEN "raise" ELSE "return",
                             0, frame.factory, "", 0, frame.pc = "raising"))
    /\ pc' = CASE runAs /= "__main__" -> pc
               [] frame.pc = "raising" -> "crashed"
               [] pc = "in_call1" -> "separator"
               [] OTHER -> "done"
    /\ UNCHANGED <<runAs, heap, stdout>>

-----------------------------------------------------------------------------
(* The module body, lines 146-156 *)

\* print(x) at module level: one write to standard output
print(line) ==
    /\ stdout' = Append(stdout, line)
    /\ log' = Append(log, Ev("module", "print", 0, 0, line, 0, FALSE))

\* client_code(C()) at module level: construct the factory, pass it on
CallWithNew(cls, next) ==
    LET r == New(cls)
        n == Len(heap) + 1
    IN  IF r.raised
        THEN /\ pc' = "crashed"
             /\ log' = Append(log, Ev("module", "new", 0, 0, r.value, 0, TRUE))
             /\ UNCHANGED <<frame, heap>>
        ELSE /\ pc' = next
             /\ Enter("module", n, Append(heap, Obj(r.value)),
                      Append(log, Ev("module", "new", 0, 0, r.value, n, FALSE)))

\* line 146: if __name__ == '__main__'
MainGuard ==
    /\ pc = "main_guard"
    /\ pc' = IF runAs = "__main__" THEN "header1" ELSE "done"
    /\ UNCHANGED <<runAs, frame, heap, stdout, log>>

\* line 150
MainHeader1 ==
    /\ pc = "header1"
    /\ print("Client: Testing client code with the first factory type")
    /\ pc' = "call1"
    /\ UNCHANGED <<runAs, frame, heap>>

\* line 151: client_code(ClassicalFurniture())
MainCall1 ==
    /\ pc = "call1"
    /\ CallWithNew("ClassicalFurniture", "in_call1")
    /\ UNCHANGED <<runAs, stdout>>

\* variant of line 153 that prints an empty line
MainSeparator_Empty ==
    /\ pc = "separator"
    /\ print("")
    /\ pc' = "header2"
    /\ UNCHANGED <<runAs, frame, heap>>

\* line 153
MainSeparator ==
    /\ pc = "separator"
    /\ print("\n")
    /\ pc' = "header2"
    /\ UNCHANGED <<runAs, frame, heap>>

\* line 155
MainHeader2 ==
    /\ pc = "header2"
    /\ print("Client: Testing the same client code with the second factory type")
    /\ pc' = "call2"
    /\ UNCHANGED <<runAs, frame, heap>>

\* variant of line 156 that passes the first factory type again
MainCall2_SameFactory ==
    /\ pc = "call2"
    /\ CallWithNew("ClassicalFurniture", "in_call2")
    /\ UNCHANGED <<runAs, stdout>>

\* line 156: client_code(ModernFuniture())
MainCall2 ==
    /\ pc = "call2"
    /\ CallWithNew("ModernFuniture", "in_call2")
    /\ UNCHANGED <<runAs, stdout>>

-----------------------------------------------------------------------------
(* Calls made by code that imported the module, one call at a time *)

CallsMade == Cardinality({i \in DOMAIN log : log[i].by = "caller"})

CallerReady ==
    /\ runAs = "imported"
    /\ pc = "done"
    /\ frame.pc = "idle"
    /\ CallsMade < MaxCalls

\* a caller's call may allocate an object, may raise, while the bounds allow
MayAllocate == Len(heap) < MaxObjects

\* calls of a caller that leave the pattern: a chair or sofa it instantiated
\* itself instead of asking a factory, or a call that raised
OffPattern ==
    {i \in DOMAIN log :
        \/ log[i].raised /\ log[i].op /= "raise"
        \/ /\ log[i].op = "new"
           /\ log[i].obj /= 0
           /\ heap[log[i].obj].cls \in ChairClasses \cup SofaClasses}

MayLeavePattern == Cardinality(OffPattern) < MaxOffPattern

MayFail == MayLeavePattern

Within(r) == IF r.raised THEN MayFail ELSE MayAllocate

MayInstantiate(cls) ==
    cls \in ChairClasses \cup SofaClasses => MayLeavePattern

Objects(classes) == {i \in DOMAIN heap : heap[i].cls \in classes}

\* C() for any class C of the module: a concrete factory, chair or sofa is
\* instantiated; an abstract class raises TypeError and allocates nothing
CallNew(cls) ==
    /\ CallerReady
    /\ Within(New(cls))
    /\ MayInstantiate(cls)
    /\ LET r == New(cls)
           n == Len(heap) + 1
       IN  IF r.raised
           THEN /\ log' = Append(log, Ev("caller", "new", 0, 0, r.value, 0, TRUE))
                /\ heap' = heap
           ELSE /\ log' = Append(log, Ev("caller", "new", 0, 0, r.value, n, FALSE))
                /\ heap' = Append(heap, Obj(r.value))
    /\ UNCHANGED <<runAs, pc, frame, stdout>>

\* f.create_chair()
CallCreateChair(f) ==
    /\ CallerReady
    /\ Within(create_chair(heap[f].cls))
    /\ LET r == create_chair(heap[f].cls)
           n == Len(heap) + 1
       IN  IF r.raised
           THEN /\ log' = Append(log, Ev("caller", "create_chair", f, 0,
                                         r.value, 0, TRUE))
                /\ heap' = heap
           ELSE /\ log' = Append(log, Ev("caller", "create_chair", f, 0,
                                         r.value, n, FALSE))
                /\ heap' = Append(heap, Obj(r.value))
    /\ UNCHANGED <<runAs, pc, frame, stdout>>

\* f.create_sofa()
CallCreateSofa(f) ==
    /\ CallerReady
    /\ Within(create_sofa(heap[f].cls))
    /\ LET r == create_sofa(heap[f].cls)
           n == Len(heap) + 1
       IN  IF r.raised
           THEN /\ log' = Append(log, Ev("caller", "create_sofa", f, 0,
                                         r.value, 0, TRUE))
                /\ heap' = heap
           ELSE /\ log' = Append(log, Ev("caller", "create_sofa", f, 0,
                                         r.value, n, FALSE))
                /\ heap' = Append(heap, Obj(r.value))
    /\ UNCHANGED <<runAs, pc, frame, stdout>>

\* c.can_sit() on a chair
CallChairCanSit(c) ==
    /\ CallerReady
    /\ can_sit0(heap[c].cls).raised => MayFail
    /\ LET r == can_sit0(heap[c].cls)
       IN  log' = Append(log, Ev("caller", "can_sit", c, 0, r.value, 0, r.raised))
    /\ UNCHANGED <<runAs, pc, frame, heap, stdout>>

\* s.can_sleep() on a sofa
CallSofaCanSleep(s) ==
    /\ CallerReady
    /\ can_sleep(heap[s].cls).raised => MayFail
    /\ LET r == can_sleep(heap[s].cls)
       IN  log' = Append(log, Ev("caller", "can_sleep", s, 0, r.value, 0, r.raised))
    /\ UNCHANGED <<runAs, pc, frame, heap, stdout>>

\* s.can_sit(x) on a sofa, x any object: the parameter's annotation is not
\* enforced
CallSofaCanSit(s, x) ==
    /\ CallerReady
    /\ can_sit1(heap[s].cls, heap[x].cls).raised => MayFail
    /\ LET r == can_sit1(heap[s].cls, heap[x].cls)
       IN  log' = Append(log, Ev("caller", "can_sit", s, x, r.value, 0, r.raised))
    /\ UNCHANGED <<runAs, pc, frame, heap, stdout>>

\* client_code(x), x any object
CallClientCode(x) ==
    /\ CallerReady
    /\ IF create_chair(heap[x].cls).raised
       THEN MayFail
       ELSE Len(heap) + Cardinality({"chair", "sofa"}) <= MaxObjects
    /\ Enter("caller", x, heap, log)
    /\ UNCHANGED <<runAs, pc, stdout>>

-----------------------------------------------------------------------------

ClientNext ==
    \/ CC_CreateChair
    \/ CC_CreateSofa
    \/ CC_PrintSleep
    \/ CC_PrintSit
    \/ CC_Exit

MainNext ==
    \/ MainGuard
    \/ MainHeader1
    \/ MainCall1
    \/ MainSeparator
    \/ MainHeader2
    \/ MainCall2

CallerNext ==
    \/ \E cls \in Classes : CallNew(cls)
    \/ \E f \in Objects(FactoryClasses) : CallCreateChair(f)
    \/ \E f \in Objects(FactoryClasses) : CallCreateSofa(f)
    \/ \E c \in Objects(ChairClasses) : CallChairCanSit(c)
    \/ \E s \in Objects(SofaClasses) : CallSofaCanSleep(s)
    \/ \E s \in Objects(SofaClasses) : \E x \in DOMAIN heap : CallSofaCanSit(s, x)
    \/ \E x \in DOMAIN heap : CallClientCode(x)

Next == MainNext \/ ClientNext \/ CallerNext

Spec == Init /\ [][Next]_vars

\* The interpreter runs the module body and client_code to their end; an
\* importing caller may stop calling at any point.
FairSpec == Spec /\ WF_vars(MainNext \/ ClientNext)
-----------------------------------------------------------------------------
(* Vocabulary of the properties *)

\* t occurs in s as a contiguous substring
Contains(s, t) ==
    \E i \in 1..(Len(s) - Len(t) + 1) : SubSeq(s, i, i + Len(t) - 1) = t

Variants == {"Classical", "Modern"}

VariantOf(cls) ==
    IF cls \in {"ClassicalFurniture", "ClassicalChair", "ClassicalSofa"}
    THEN "Classical" ELSE "Modern"

OtherVariant(v) == IF v = "Classical" THEN "Modern" ELSE "Classical"

IsCreate(e) == e.op \in {"create_chair", "create_sofa"}

\* the factory (heap index) whose create call returned object o, 0 if none
MakerOf(o) ==
    IF \E i \in DOMAIN log : IsCreate(log[i]) /\ log[i].obj = o
    THEN log[CHOOSE i \in DOMAIN log : IsCreate(log[i]) /\ log[i].obj = o].self
    ELSE 0

\* entries of the history: sofa.can_sit(chair), chair.can_sit(), sofa.can_sleep()
IsSofaSit(e) ==
    /\ e.op = "can_sit"
    /\ e.arg /= 0
    /\ heap[e.self].cls \in SofaClasses
    /\ heap[e.arg].cls \in ChairClasses

IsChairSit(e) == e.op = "can_sit" /\ e.arg = 0 /\ heap[e.self].cls \in ChairClasses

IsSleep(e) == e.op = "can_sleep" /\ heap[e.self].cls \in SofaClasses

\* what the chair at heap index c answers to can_sit()
ChairSentence(c) == can_sit0(heap[c].cls).value

-----------------------------------------------------------------------------
(* Claims *)

\* C1: every product a factory returns has the factory's variant:
\* ClassicalFurniture returns only ClassicalChair from create_chair and
\* ClassicalSofa from create_sofa, ModernFuniture only ModernChair and
\* ModernSofa; a create call on a factory never fails and never yields an
\* abstract Chair or Sofa.
C1_FactoryVariant ==
    \A i \in DOMAIN log :
        LET e == log[i] IN
        (IsCreate(e) /\ heap[e.self].cls \in FactoryClasses) =>
            /\ ~e.raised
            /\ e.obj \in DOMAIN heap
            /\ heap[e.obj].cls =
                  VariantOf(heap[e.self].cls)
                    \o (IF e.op = "create_chair" THEN "Chair" ELSE "Sofa")
            /\ heap[e.obj].cls \notin AbstractClasses

\* C1 witness: chairs and sofas have been created by factories of both variants
C1_Witness ==
    \E i, j \in DOMAIN log :
        /\ log[i].op = "create_chair" /\ ~log[i].raised
        /\ heap[log[i].self].cls = "ClassicalFurniture"
        /\ log[j].op = "create_sofa" /\ ~log[j].raised
        /\ heap[log[j].self].cls = "ModernFuniture"

\* C2: when a sofa and a chair made by the same factory collaborate, the
\* sofa's can_sit(chair) returns a string that contains the chair's own
\* can_sit() string as a contiguous substring.
C2_SameFactoryEmbeds ==
    \A i \in DOMAIN log :
        LET e == log[i] IN
        (IsSofaSit(e) /\ MakerOf(e.self) /= 0 /\ MakerOf(e.self) = MakerOf(e.arg)) =>
            /\ ~e.raised
            /\ Contains(e.ret, ChairSentence(e.arg))

\* C2 witness: both a Classical pair and a Modern pair have collaborated
C2_Witness ==
    \A v \in Variants :
        \E i \in DOMAIN log :
            /\ IsSofaSit(log[i]) /\ ~log[i].raised
            /\ MakerOf(log[i].self) /= 0
            /\ MakerOf(log[i].self) = MakerOf(log[i].arg)
            /\ VariantOf(heap[log[i].self].cls) = v

\* C3: a sofa of variant B given a chair of another variant A does not fail:
\* can_sit returns a string that ends with the chair's sentence in
\* parentheses; the part before it names B and not A, the chair's sentence
\* names A and not B.
C3_CrossVariantAccepted ==
    \A i \in DOMAIN log :
        LET e == log[i] IN
        (IsSofaSit(e) /\ VariantOf(heap[e.self].cls) /= VariantOf(heap[e.arg].cls)) =>
            LET B == VariantOf(heap[e.self].cls)
                A == VariantOf(heap[e.arg].cls)
                embedded == "(" \o ChairSentence(e.arg) \o ")"
                cut == Len(e.ret) - Len(embedded)
            IN  /\ ~e.raised
                /\ cut >= 0
                /\ SubSeq(e.ret, cut + 1, Len(e.ret)) = embedded
                /\ Contains(SubSeq(e.ret, 1, cut), B \o " sofa")
                /\ ~Contains(SubSeq(e.ret, 1, cut), A)
                /\ Contains(ChairSentence(e.arg), A)
                /\ ~Contains(ChairSentence(e.arg), B)

\* C3 witness: a Modern sofa was given a Classical chair, each made by the
\* factory of its own variant
C3_Witness ==
    \E i \in DOMAIN log :
        /\ IsSofaSit(log[i])
        /\ heap[log[i].self].cls = "ModernSofa"
        /\ heap[log[i].arg].cls = "ClassicalChair"
        /\ MakerOf(log[i].self) /= 0
        /\ MakerOf(log[i].arg) /= 0
        /\ heap[MakerOf(log[i].self)].cls = "ModernFuniture"
        /\ heap[MakerOf(log[i].arg)].cls = "ClassicalFurniture"
\* what client_code has written since it was entered
Written == SubSeq(stdout, frame.base + 1, Len(stdout))

\* C4: when client_code(factory) has run to its end it has written exactly
\* two lines: for a ClassicalFurniture "you can sleep from Classical sofa"
\* then "You can sit on it from Classical sofa, with collabortaor (You can
\* sit on it from Classical Chair)"; for a ModernFuniture "You can sleep
\* from Modern sofa" then "You can sit on it from Modern sofa, with
\* collaborator (You can sit on it from Modern Chair)".  With a factory it
\* always runs to its end.
C4_ClientOutput ==
    (frame.pc \in {"returning", "raising"}
        /\ heap[frame.factory].cls \in FactoryClasses) =>
        /\ frame.pc = "returning"
        /\ heap[frame.factory].cls = "ClassicalFurniture" =>
              Written = << "you can sleep from Classical sofa",
                           "You can sit on it from Classical sofa, with collabortaor (You can sit on it from Classical Chair)" >>
        /\ heap[frame.factory].cls = "ModernFuniture" =>
              Written = << "You can sleep from Modern sofa",
                           "You can sit on it from Modern sofa, with collaborator (You can sit on it from Modern Chair)" >>

\* C4 witness: the entry point's second call has run to its end after the
\* first one did, so client_code has finished with a factory of each variant
C4_Witness ==
    /\ pc = "in_call2"
    /\ frame.pc = "returning"
    /\ heap[frame.factory].cls = "ModernFuniture"
    /\ \E i \in DOMAIN log :
          /\ log[i].op = "return"
          /\ heap[log[i].arg].cls = "ClassicalFurniture"

\* C5 (as claimed): for every sofa variant V and every chair c, the sofa's
\* can_sit(c) returns exactly "You can sit on it from V sofa, with
\* collaborator (" followed by c.can_sit() followed by ")".
C5_SofaSentence ==
    \A i \in DOMAIN log :
        LET e == log[i] IN
        IsSofaSit(e) =>
            /\ ~e.raised
            /\ e.ret = "You can sit on it from " \o VariantOf(heap[e.self].cls)
                         \o " sofa, with collaborator ("
                         \o ChairSentence(e.arg) \o ")"

\* C6: the chair a factory creates answers can_sit(), called without an
\* argument, with a sentence that contains the factory's variant name and
\* "Chair" and does not contain the other variant's name.
C6_ChairSentence ==
    \A i \in DOMAIN log :
        LET e == log[i] IN
        (IsChairSit(e) /\ MakerOf(e.self) /= 0) =>
            LET F == VariantOf(heap[MakerOf(e.self)].cls)
            IN  /\ ~e.raised
                /\ Contains(e.ret, F)
                /\ Contains(e.ret, "Chair")
                /\ ~Contains(e.ret, OtherVariant(F))

\* C6 witness: a caller asked the chair made by a ModernFuniture, without
\* passing an argument
C6_Witness ==
    \E i \in DOMAIN log :
        /\ IsChairSit(log[i])
        /\ log[i].by = "caller"
        /\ MakerOf(log[i].self) /= 0
        /\ heap[MakerOf(log[i].self)].cls = "ModernFuniture"

\* C7: the sofa a factory creates answers can_sleep() with a string that
\* contains the factory's variant name and "sofa".
C7_SleepSentence ==
    \A i \in DOMAIN log :
        LET e == log[i] IN
        (IsSleep(e) /\ MakerOf(e.self) /= 0) =>
            LET F == VariantOf(heap[MakerOf(e.self)].cls)
            IN  /\ ~e.raised
                /\ Contains(e.ret, F)
                /\ Contains(e.ret, "sofa")

\* C7 witness: sofas of both factory variants have been asked
C7_Witness ==
    \A cls \in FactoryClasses :
        \E i \in DOMAIN log :
            /\ IsSleep(log[i])
            /\ MakerOf(log[i].self) /= 0
            /\ heap[MakerOf(log[i].self)].cls = cls
-----------------------------------------------------------------------------
(* The entry point *)

\* the factories client_code has been called with, in call order
Invocations ==
    LET calls == SelectSeq(log, LAMBDA e : e.op = "client_code")
    IN  [k \in DOMAIN calls |-> heap[calls[k].arg].cls]

\* the string s has reached standard output, alone or inside a written line
WrittenOut(s) == \E k \in DOMAIN stdout : Contains(stdout[k], s)

\* every string a product has returned so far: the sofas' answers recorded
\* in the history and, for each sofa.can_sit(chair), the chair's answer
ProductStrings ==
    {log[i].ret : i \in {j \in DOMAIN log :
                            /\ log[j].op \in {"can_sit", "can_sleep"}
                            /\ ~log[j].raised}}
    \cup {ChairSentence(log[i].arg) : i \in {j \in DOMAIN log :
                                                IsSofaSit(log[j]) /\ ~log[j].raised}}

DirectRun == runAs = "__main__"

EntryPointSafe ==
    DirectRun =>
        /\ pc /= "crashed"
        /\ \A i \in DOMAIN log : ~log[i].raised
        /\ \A j, k \in DOMAIN Invocations :
              j /= k => Invocations[j] /= Invocations[k]
        /\ pc = "done" =>
              /\ Len(Invocations) = Cardinality(FactoryClasses)
              /\ {Invocations[k] : k \in DOMAIN Invocations} = FactoryClasses
              /\ \A s \in ProductStrings : WrittenOut(s)

\* C8: run directly, the entry point never fails and never calls client_code
\* twice with the same factory variant; the run always comes to its end,
\* and by then client_code has been called exactly twice, once with each
\* factory variant, and every string the products returned has been written
\* to standard output.
C8_EntryPoint == []EntryPointSafe /\ (DirectRun ~> pc = "done")

\* C8 witness: a direct run has come to its end, both calls made
C8_Witness ==
    /\ DirectRun
    /\ pc = "done"
    /\ Len(Invocations) = Cardinality(FactoryClasses)
    /\ Cardinality(ProductStrings) > Cardinality(FactoryClasses)

\* the seven print events of a direct run
ExpectedOutput ==
    << "Client: Testing client code with the first factory type",
       ClassicalSofa_can_sleep,
       ClassicalSofa_can_sit("ClassicalChair").value,
       "\n",
       "Client: Testing the same client code with the second factory type",
       ModernSofa_can_sleep,
       ModernSofa_can_sit("ModernChair").value >>

IsPrefix(s, t) == Len(s) <= Len(t) /\ s = SubSeq(t, 1, Len(s))

\* within the invocation of client_code that print event k belongs to, both
\* products were created before k
CreatedBefore(k) ==
    LET starts == {i \in 1..(k - 1) : log[i].op = "client_code"}
    IN  /\ starts /= {}
        /\ LET i == CHOOSE m \in starts : \A n \in starts : n <= m
           IN  \E c, d \in (i + 1)..(k - 1) :
                   /\ log[c].op = "create_chair" /\ ~log[c].raised
                   /\ log[d].op = "create_sofa" /\ ~log[d].raised

\* C10: in a direct run the print events are, in order, a prefix of the
\* seven expected ones (first header, Classical can_sleep line, Classical
\* can_sit line, "\n", second header, Modern can_sleep line, Modern can_sit
\* line) and at the end exactly these seven; every print made by client_code
\* comes after both of that invocation's products were created.
C10_DirectRunOutput ==
    DirectRun =>
        /\ IsPrefix(stdout, ExpectedOutput)
        /\ pc = "done" => stdout = ExpectedOutput
        /\ stdout = [k \in DOMAIN SelectSeq(log, LAMBDA e : e.op = "print")
                        |-> SelectSeq(log, LAMBDA e : e.op = "print")[k].ret]
        /\ \A k \in DOMAIN log :
              (log[k].op = "print" /\ log[k].by = "client_code") => CreatedBefore(k)

\* C10 witness: a direct run has ended and seven print events were made
C10_Witness ==
    /\ DirectRun
    /\ pc = "done"
    /\ Len(stdout) = Len(ExpectedOutput)
    /\ \E k \in DOMAIN log : log[k].op = "print" /\ log[k].by = "client_code"

-----------------------------------------------------------------------------
(* Purity *)

\* the call recorded in e: the operation and the classes of the receiver
\* and of the argument
Shape(e) ==
    << e.op,
       IF e.self = 0 THEN "" ELSE heap[e.self].cls,
       IF e.arg = 0 THEN "" ELSE heap[e.arg].cls >>

IsProductCall(e) == e.op \in {"can_sit", "can_sleep"}

\* equal calls have had equal results, whatever happened in between
HistoryIndependent ==
    \A i, j \in DOMAIN log :
        (IsProductCall(log[i]) /\ IsProductCall(log[j])
            /\ Shape(log[i]) = Shape(log[j])) =>
            /\ log[i].ret = log[j].ret
            /\ log[i].raised = log[j].raised

\* C9: no step changes an object that exists (its class or its attributes),
\* and after every step the result of each product call made so far is
\* determined by the operation and the classes of receiver and collaborator:
\* a call repeated after other operations returned the identical string.
C9_Pure ==
    [][ /\ \A i \in DOMAIN heap : i \in DOMAIN heap' /\ heap'[i] = heap[i]
        /\ HistoryIndependent' ]_vars

\* C9 witness: a caller repeated a product call on the same object with other
\* operations in between, among them the creation of an object
C9_Witness ==
    \E i, j \in DOMAIN log :
        /\ i + 1 < j
        /\ IsProductCall(log[i]) /\ ~log[i].raised
        /\ log[j].op = log[i].op /\ log[j].self = log[i].self
        /\ log[j].arg = log[i].arg
        /\ \E m \in (i + 1)..(j - 1) : log[m].obj /= 0
====
